---- MODULE Spec2Model ----
(***************************************************************************)
(* The pgvector training-data store of vanna (PG_VectorStore): the flat    *)
(* table langchain_pg_embedding, the three add operations, train and its   *)
(* plan replay, the export, and the two delete operations.                 *)
(*                                                                         *)
(* Text is a sequence of one-character strings.  An id is such a sequence  *)
(* too: the digest of deterministic_uuid is one opaque token, followed by  *)
(* the characters of the suffix, so that custom_id[-3:] and LIKE '%sql'    *)
(* read the last three characters as the code does.                        *)
(***************************************************************************)
EXTENDS Naturals, Integers, Sequences, FiniteSets, TLC

VARIABLES table, call, seen, pc, loc

vars == <<table, call, seen, pc, loc>>

\* ------------------------------------------------------------------ bounds
\* Longest text drawn for the encode/decode and the race specifications.
MaxLen == 2
\* Longest training plan replayed.
MaxPlanLen == 3
\* Most rows of a foreign-populated table handed to the export.
MaxRows == 2
\* Number of concurrent callers of one add operation.
NumCallers == 2

\* --------------------------------------------------------------- characters
DQ == "\""
BS == "\\"
NL == "\n"
SP == " "

\* The characters texts are drawn from: a letter, and the three characters
\* json.dumps escapes or a Python string literal treats specially.
Chars == {"n", DQ, BS, NL}

Letters ==
    {"a", "c", "d", "e", "i", "l", "n", "o", "q", "s", "t", "u", "N", "T", "F", "r"}

Digits == {"1", "2"}

RECURSIVE StringsOfLen(_)
StringsOfLen(k) ==
    IF k = 0 THEN {<<>>}
    ELSE {Append(s, c) : s \in StringsOfLen(k - 1), c \in Chars}

\* Every text over Chars of length at most MaxLen.
Strings == UNION {StringsOfLen(k) : k \in 0..MaxLen}

\* The texts the store operations are called with: the empty string (falsy
\* in train) and one non-empty string.
Texts == {<<>>, <<"n">>}

\* The SQL texts add_question_sql is called with.
SqlTexts == {<<"n">>}

\* ------------------------------------------------------------ Python values
\* A Python value as train and the export see it: None, a str, an int, a
\* constant or a dict of scalar entries.
NoneVal == [kind |-> "NoneType", val |-> <<>>, items |-> <<>>]

StrVal(s) == [kind |-> "str", val |-> s, items |-> <<>>]

IntVal(s) == [kind |-> "int", val |-> s, items |-> <<>>]

ConstVal(s) == [kind |-> "const", val |-> s, items |-> <<>>]

DictVal(entries) == [kind |-> "dict", val |-> <<>>, items |-> entries]

\* Python truthiness of an argument of train: None and "" are falsy.
Truthy(v) == v.kind = "str" /\ v.val # <<>>

\* ------------------------------------------------------------- json.dumps
RECURSIVE json_escape(_)
\* The body of a JSON string under ensure_ascii=False: the quote, the
\* backslash and the control character are escaped, the rest is kept.
json_escape(s) ==
    IF s = <<>> THEN <<>>
    ELSE LET c == Head(s)
             e == IF c = DQ THEN <<BS, DQ>>
                  ELSE IF c = BS THEN <<BS, BS>>
                  ELSE IF c = NL THEN <<BS, "n">>
                  ELSE <<c>>
         IN  e \o json_escape(Tail(s))

JsonHead == <<"{", DQ, "q", "u", "e", "s", "t", "i", "o", "n", DQ, ":", SP>>

JsonMid == <<",", SP, DQ, "s", "q", "l", DQ, ":", SP>>

\* The payload built with no escaping at all.
question_sql_json_raw(question, sql) ==
    JsonHead \o <<DQ>> \o question \o <<DQ>>
        \o JsonMid \o <<DQ>> \o sql \o <<DQ>> \o <<"}">>

\* json.dumps({"question": question, "sql": sql}, ensure_ascii=False)
question_sql_json(question, sql) ==
    JsonHead \o <<DQ>> \o json_escape(question) \o <<DQ>>
        \o JsonMid \o <<DQ>> \o json_escape(sql) \o <<DQ>> \o <<"}">>

\* ------------------------------------------------------- ast.literal_eval
\* The Python literals decoded here: a double-quoted string, a run of
\* digits, a name, and a dict display whose keys and values are those.
Fail(e) == [ok |-> FALSE, exc |-> e, value |-> NoneVal, next |-> 0]

Got(v, n) == [ok |-> TRUE, exc |-> "none", value |-> v, next |-> n]

RECURSIVE SkipWs(_, _)
SkipWs(s, i) == IF i <= Len(s) /\ s[i] = SP THEN SkipWs(s, i + 1) ELSE i

RECURSIVE ScanString(_, _, _)
\* The rest of a string literal from position j, acc being what is decoded.
ScanString(s, j, acc) ==
    IF j > Len(s) THEN Fail("SyntaxError")
    ELSE IF s[j] = DQ THEN Got(StrVal(acc), j + 1)
    ELSE IF s[j] = NL THEN Fail("SyntaxError")
    ELSE IF s[j] = BS
         THEN IF j + 1 > Len(s) THEN Fail("SyntaxError")
              ELSE LET d == s[j + 1]
                   IN  IF d = DQ THEN ScanString(s, j + 2, Append(acc, DQ))
                       ELSE IF d = BS THEN ScanString(s, j + 2, Append(acc, BS))
                       ELSE IF d = "n" THEN ScanString(s, j + 2, Append(acc, NL))
                       ELSE IF d = NL THEN ScanString(s, j + 2, acc)
                       ELSE ScanString(s, j + 2, acc \o <<BS, d>>)
    ELSE ScanString(s, j + 1, Append(acc, s[j]))

RECURSIVE ScanRun(_, _, _)
\* The end of the run of characters of set cs that starts at j.
ScanRun(s, j, cs) ==
    IF j <= Len(s) /\ s[j] \in cs THEN ScanRun(s, j + 1, cs) ELSE j

NameVal(s) ==
    IF s = <<"N", "o", "n", "e">> THEN NoneVal
    ELSE IF s \in {<<"T", "r", "u", "e">>, <<"F", "a", "l", "s", "e">>}
         THEN ConstVal(s)
    ELSE [kind |-> "name", val |-> s, items |-> <<>>]

ParseScalar(s, i) ==
    IF i > Len(s) THEN Fail("SyntaxError")
    ELSE IF s[i] = DQ THEN ScanString(s, i + 1, <<>>)
    ELSE IF s[i] \in Digits
         THEN LET e == ScanRun(s, i, Digits)
              IN  Got(IntVal(SubSeq(s, i, e - 1)), e)
    ELSE IF s[i] \in Letters
         THEN LET e == ScanRun(s, i, Letters)
              IN  Got(NameVal(SubSeq(s, i, e - 1)), e)
    ELSE Fail("SyntaxError")

RECURSIVE ParseEntries(_, _, _)
\* The entries of a dict display from position j, up to its closing brace.
ParseEntries(s, j, acc) ==
    LET k == ParseScalar(s, j)
    IN  IF ~k.ok THEN k
        ELSE LET c == SkipWs(s, k.next)
             IN  IF c > Len(s) \/ s[c] # ":" THEN Fail("SyntaxError")
                 ELSE LET v == ParseScalar(s, SkipWs(s, c + 1))
                      IN  IF ~v.ok THEN v
                          ELSE LET m   == SkipWs(s, v.next)
                                   got == Append(acc, <<k.value, v.value>>)
                               IN  IF m > Len(s) THEN Fail("SyntaxError")
                                   ELSE IF s[m] = "}" THEN Got(DictVal(got), m + 1)
                                   ELSE IF s[m] # "," THEN Fail("SyntaxError")
                                   ELSE LET n == SkipWs(s, m + 1)
                                        IN  IF n <= Len(s) /\ s[n] = "}"
                                            THEN Got(DictVal(got), n + 1)
                                            ELSE ParseEntries(s, n, got)

ParseLiteral(s, i) ==
    IF i > Len(s) THEN Fail("SyntaxError")
    ELSE IF s[i] = "{"
         THEN LET j == SkipWs(s, i + 1)
              IN  IF j <= Len(s) /\ s[j] = "}" THEN Got(DictVal(<<>>), j + 1)
                  ELSE ParseEntries(s, j, <<>>)
    ELSE ParseScalar(s, i)

\* A name that is no constant, anywhere in the parsed value.
HasName(v) ==
    \/ v.kind = "name"
    \/ \E n \in 1..Len(v.items) :
          v.items[n][1].kind = "name" \/ v.items[n][2].kind = "name"

\* ast.literal_eval(document): the value, or the exception it raises
\* (SyntaxError from the parse, ValueError from a malformed node).
literal_eval(document) ==
    LET s == SubSeq(document, SkipWs(document, 1), Len(document))
        p == ParseLiteral(s, 1)
    IN  IF ~p.ok THEN [exc |-> p.exc, value |-> NoneVal]
        ELSE IF SkipWs(s, p.next) <= Len(s)
             THEN [exc |-> "SyntaxError", value |-> NoneVal]
        ELSE IF HasName(p.value) THEN [exc |-> "ValueError", value |-> NoneVal]
        ELSE [exc |-> "none", value |-> p.value]

RECURSIVE DictLookup(_, _, _)
DictLookup(items, key, n) ==
    IF n = 0 THEN NoneVal
    ELSE IF items[n][1] = StrVal(key) THEN items[n][2]
    ELSE DictLookup(items, key, n - 1)

\* doc_dict.get(key): the value of the last entry under key, else None.
dict_get(d, key) == DictLookup(d.items, key, Len(d.items))

KeyQuestion == <<"q", "u", "e", "s", "t", "i", "o", "n">>

KeySql == <<"s", "q", "l">>

\* ------------------------------------------------------------ identifiers
SuffixSql == <<"-", "s", "q", "l">>

SuffixDdl == <<"-", "d", "d", "l">>

SuffixDoc == <<"-", "d", "o", "c">>

\* deterministic_uuid(content): a pure function of the content with no
\* collisions; its value is one opaque token.
deterministic_uuid(content) == <<ToString(content)>>

\* custom_id[-3:]
Last3(id) == IF Len(id) <= 3 THEN id ELSE SubSeq(id, Len(id) - 2, Len(id))

\* Document(page_content=..., metadata={"id": _id})
Document(page_content, id) == [page_content |-> page_content, id |-> id]

\* Lines 57-59: the document add_question_sql builds.
QuestionSqlDocument(question, sql) ==
    LET payload == question_sql_json(question, sql)
    IN  Document(payload, deterministic_uuid(payload) \o SuffixSql)

\* Lines 64-65: the document add_ddl builds.
DdlDocument(ddl) == Document(ddl, deterministic_uuid(ddl) \o SuffixDdl)

\* The document of add_documentation given the suffix of add_ddl.
DocumentationDocument_ddl_suffix(documentation) ==
    Document(documentation, deterministic_uuid(documentation) \o SuffixDdl)

\* Lines 70-71: the document add_documentation builds.
DocumentationDocument(documentation) ==
    Document(documentation, deterministic_uuid(documentation) \o SuffixDoc)

\* ------------------------------------------------------------------ table
\* A row of langchain_pg_embedding: its primary key, the id of cmetadata,
\* the document text and the collection (partition) it was added through.
Row(pk, id, document, collection) ==
    [pk |-> pk, id |-> id, document |-> document, collection |-> collection]

\* The key the vector store makes up when add_documents is given no ids.
GeneratedKey(t) == <<"uuid4", ToString(Cardinality(t))>>

\* collection.add_documents([doc], ids=[key]): an upsert on the primary
\* key; a conflicting row keeps its collection, its document and cmetadata
\* are replaced.
add_documents(t, collection, doc, key) ==
    IF \E r \in t : r.pk = key
    THEN {IF r.pk = key
          THEN Row(r.pk, doc.id, doc.page_content, r.collection)
          ELSE r : r \in t}
    ELSE t \cup {Row(key, doc.id, doc.page_content, collection)}

\* The table after add_question_sql(question, sql).
store_question_sql(t, question, sql) ==
    LET doc == QuestionSqlDocument(question, sql)
    IN  add_documents(t, "sql", doc, doc.id)

\* add_ddl calling add_documents([doc]) with the ids left out.
store_ddl_without_ids(t, ddl) ==
    add_documents(t, "ddl", DdlDocument(ddl), GeneratedKey(t))

\* The table after add_ddl(ddl).
store_ddl(t, ddl) ==
    LET doc == DdlDocument(ddl)
    IN  add_documents(t, "ddl", doc, doc.id)

\* The table after add_documentation(documentation).
store_documentation(t, documentation) ==
    LET doc == DocumentationDocument(documentation)
    IN  add_documents(t, "documentation", doc, doc.id)

\* ------------------------------------------------------------ call record
\* What the last call was and how it ended: the value returned, the
\* exception that reached the caller, the diagnostic printed, whether
\* transaction.rollback() ran, and where the engine failed, if it did.
Call(op, args, ret, raised, diag, rollback) ==
    [op |-> op, args |-> args, ret |-> ret, raised |-> raised,
     diag |-> diag, rollback |-> rollback, fault |-> "none"]

NoCall == Call("none", <<>>, NoneVal, "none", "none", FALSE)

\* One earlier add that is being watched: the operation, its content, the
\* id it returned, and whether the same add has been made again since.
NoSeen == [op |-> "none", content |-> <<>>, id |-> <<>>, again |-> FALSE]

\* After an add: start watching this call, or keep watching the earlier
\* one (noting when this call repeats it).
Remember(op, content, id) ==
    {[op |-> op, content |-> content, id |-> id, again |-> FALSE],
     IF seen.op = op /\ seen.content = content
     THEN [seen EXCEPT !.again = TRUE] ELSE seen}

Callers == 1..NumCallers

Idle == [c \in Callers |-> "idle"]

NoLoc == [c \in Callers |-> Document(<<>>, <<>>)]

\* ------------------------------------------------------------------- adds
add_question_sql(question, sql) ==
    LET _id == QuestionSqlDocument(question, sql).id
    IN  /\ table' = store_question_sql(table, question, sql)
        /\ call' = Call("add_question_sql", <<question, sql>>, _id,
                        "none", "none", FALSE)
        /\ seen' \in Remember("add_question_sql", <<question, sql>>, _id)
        /\ UNCHANGED <<pc, loc>>

add_ddl(ddl) ==
    LET _id == DdlDocument(ddl).id
    IN  /\ table' = store_ddl(table, ddl)
        /\ call' = Call("add_ddl", <<ddl>>, _id, "none", "none", FALSE)
        /\ seen' \in Remember("add_ddl", <<ddl>>, _id)
        /\ UNCHANGED <<pc, loc>>

add_documentation(documentation) ==
    LET _id == DocumentationDocument(documentation).id
    IN  /\ table' = store_documentation(table, documentation)
        /\ call' = Call("add_documentation", <<documentation>>, _id,
                        "none", "none", FALSE)
        /\ seen' \in Remember("add_documentation", <<documentation>>, _id)
        /\ UNCHANGED <<pc, loc>>

\* --------------------------------------------------------- get_collection
CollectionNames == {"sql", "ddl", "documentation"}

\* The names callers pass: the three collections, a suffix mistaken for a
\* name, and the empty string.
NamesTried == CollectionNames \cup {"doc", ""}

get_collection(collection_name) ==
    /\ call' = IF collection_name \in CollectionNames
               THEN Call("get_collection", <<collection_name>>,
                         collection_name, "none", "none", FALSE)
               ELSE Call("get_collection", <<collection_name>>, NoneVal,
                         "ValueError", "none", FALSE)
    /\ UNCHANGED <<table, seen, pc, loc>>

\* ---------------------------------------------------------------- queries
\* config.get("n_results", 10)
n_results == 10

Min(a, b) == IF a <= b THEN a ELSE b

\* similarity_search(query, k) on the sql collection: some k of its rows
\* (all of them when it holds fewer), in an order the vector store picks.
SimilarRows(t, k) ==
    LET rows == {r \in t : r.collection = "sql"}
    IN  {S \in SUBSET rows : Cardinality(S) = Min(k, Cardinality(rows))}

get_similar_question_sql(question) ==
    \E documents \in SimilarRows(table, n_results) :
        LET bad == {r \in documents : literal_eval(r.document).exc # "none"}
        IN  /\ call' =
                 IF bad = {}
                 THEN Call("get_similar_question_sql", <<question>>,
                           {literal_eval(r.document).value : r \in documents},
                           "none", "none", FALSE)
                 ELSE Call("get_similar_question_sql", <<question>>, NoneVal,
                           literal_eval((CHOOSE r \in bad : TRUE).document).exc,
                           "none", FALSE)
            /\ UNCHANGED <<table, seen, pc, loc>>

\* Lines 149-171: what the export loop does with one row: "keep" it with
\* the fields below, "skip" it, or "raise".
ProcessRow(row) ==
    LET custom_id == row.id
        document  == row.document
        training_data_type ==
            IF Last3(custom_id) = <<"d", "o", "c">> THEN "documentation"
            ELSE IF Last3(custom_id) = <<"s", "q", "l">> THEN "sql"
            ELSE IF Last3(custom_id) = <<"d", "d", "l">> THEN "ddl"
            ELSE "unrecognized"
        Kept(question, content) ==
            [do |-> "keep", id |-> custom_id, question |-> question,
             content |-> content, training_data_type |-> training_data_type]
        Other(what) ==
            [do |-> what, id |-> custom_id, question |-> NoneVal,
             content |-> NoneVal, training_data_type |-> training_data_type]
    IN  IF training_data_type = "sql"
        THEN LET doc_dict == literal_eval(document)
             IN  IF doc_dict.exc \in {"ValueError", "SyntaxError"}
                 THEN Other("skip")
                 ELSE IF doc_dict.value.kind # "dict"
                      THEN Other("AttributeError")
                 ELSE Kept(dict_get(doc_dict.value, KeyQuestion),
                           dict_get(doc_dict.value, KeySql))
        ELSE IF training_data_type \in {"documentation", "ddl"}
             THEN Kept(NoneVal, StrVal(document))
        ELSE Other("skip")

\* The rows of the DataFrame, one per row the loop keeps, keyed by the
\* table row each comes from.
Export(t) ==
    [r \in {x \in t : ProcessRow(x).do = "keep"} |-> ProcessRow(r)]

get_training_data ==
    LET raising == {r \in table : ProcessRow(r).do \notin {"keep", "skip"}}
    IN  /\ call' =
             IF raising = {}
             THEN Call("get_training_data", <<>>, Export(table),
                       "none", "none", FALSE)
             ELSE Call("get_training_data", <<>>, NoneVal,
                       ProcessRow(CHOOSE r \in raising : TRUE).do,
                       "none", FALSE)
        /\ UNCHANGED <<table, seen, pc, loc>>

\* ---------------------------------------------------------------- deletes
\* Where the relational engine can fail during a delete.
Faults == {"none", "connect", "begin", "execute", "commit"}

\* Lines 191-204 and 226-240: engine.connect() and connection.begin() are
\* entered before the try block; execute and commit run inside it.
\* deleted is the set of rows the statement matches, op and args name the
\* call, and okDiag is what a completed delete prints.
RunDelete(op, args, deleted, fault, okRet, okDiag) ==
    IF fault \in {"connect", "begin"}
    THEN /\ call' = [Call(op, args, NoneVal, "OperationalError", "none",
                           FALSE) EXCEPT !.fault = fault]
         /\ UNCHANGED table
    ELSE IF fault \in {"execute", "commit"}
    THEN /\ call' = [Call(op, args, FALSE, "none", "An error occurred",
                           TRUE) EXCEPT !.fault = fault]
         /\ UNCHANGED table
    ELSE /\ call' = Call(op, args, okRet, "none", okDiag, FALSE)
         /\ table' = table \ deleted

\* DELETE ... WHERE cmetadata ->> 'id' = :id
MatchId(t, id) == {r \in t : r.id = id}

\* remove_training_data reporting success whether or not a row matched.
remove_training_data_always_true(id, fault) ==
    /\ RunDelete("remove_training_data", <<id>>, MatchId(table, id), fault,
                 Cardinality(MatchId(table, id)) >= 0, "none")
    /\ UNCHANGED <<seen, pc, loc>>

remove_training_data(id, fault) ==
    /\ RunDelete("remove_training_data", <<id>>, MatchId(table, id), fault,
                 Cardinality(MatchId(table, id)) > 0, "none")
    /\ UNCHANGED <<seen, pc, loc>>

\* A lookup that falls back to the sql suffix for an unknown name.
suffix_map_default_sql(collection_name) ==
    IF collection_name = "ddl" THEN <<"d", "d", "l">>
    ELSE IF collection_name = "documentation" THEN <<"d", "o", "c">>
    ELSE <<"s", "q", "l">>

\* suffix_map.get(collection_name); <<>> stands for None.
suffix_map(collection_name) ==
    IF collection_name = "ddl" THEN <<"d", "d", "l">>
    ELSE IF collection_name = "sql" THEN <<"s", "q", "l">>
    ELSE IF collection_name = "documentation" THEN <<"d", "o", "c">>
    ELSE <<>>

\* DELETE ... WHERE cmetadata->>'id' LIKE '%<suffix>'
MatchSuffix(t, suffix) ==
    {r \in t : Len(r.id) >= Len(suffix)
               /\ SubSeq(r.id, Len(r.id) - Len(suffix) + 1, Len(r.id)) = suffix}

remove_collection(collection_name, fault) ==
    LET suffix  == suffix_map(collection_name)
        deleted == MatchSuffix(table, suffix)
    IN  /\ IF suffix = <<>>
           THEN /\ call' = Call("remove_collection", <<collection_name>>,
                                FALSE, "none", "Invalid collection name", FALSE)
                /\ UNCHANGED table
           ELSE RunDelete("remove_collection", <<collection_name>>, deleted,
                          fault, Cardinality(deleted) > 0,
                          IF Cardinality(deleted) > 0 THEN "Deleted rows"
                          ELSE "No rows deleted")
        /\ UNCHANGED <<seen, pc, loc>>

\* ---------------------------------------------------------- specification
\* The ids callers pass to remove_training_data: every id an add can
\* return, and one that no add returns.
IdsTried ==
    {QuestionSqlDocument(q, s).id : q \in Texts, s \in SqlTexts}
        \cup {DdlDocument(d).id : d \in Texts}
        \cup {DocumentationDocument(d).id : d \in Texts}
        \cup {<<"x">>}

Init ==
    /\ table = {}
    /\ call = NoCall
    /\ seen = NoSeen
    /\ pc = Idle
    /\ loc = NoLoc

Next ==
    \/ \E question \in Texts, sql \in SqlTexts : add_question_sql(question, sql)
    \/ \E ddl \in Texts : add_ddl(ddl)
    \/ \E documentation \in Texts : add_documentation(documentation)
    \/ \E name \in NamesTried : get_collection(name)
    \/ \E question \in Texts : get_similar_question_sql(question)
    \/ get_training_data
    \/ \E id \in IdsTried, fault \in Faults : remove_training_data(id, fault)
    \/ \E name \in NamesTried, fault \in Faults : remove_collection(name, fault)

Spec == Init /\ [][Next]_vars

\* ------------------------------------------------------ claims under Spec
AddOps == {"add_question_sql", "add_ddl", "add_documentation"}

DeleteOps == {"remove_training_data", "remove_collection"}

RowsWithId(t, id) == {r \in t : r.id = id}

\* C1: an add that repeats a watched earlier add of the same operation and
\* content returns the id the earlier one returned, and after any add the
\* corpus holds exactly one record with the returned id.
C1_IdempotentInsert ==
    call.op \in AddOps =>
        /\ Cardinality(RowsWithId(table, call.ret)) = 1
        /\ (seen.op = call.op /\ seen.content = call.args)
               => call.ret = seen.id

\* An add_ddl made a second time with the same text, other records being
\* in the corpus.
C1_Witness ==
    /\ call.op = "add_ddl"
    /\ seen.op = "add_ddl" /\ seen.content = call.args /\ seen.again
    /\ Cardinality(table) >= 2

Tail4(id) == IF Len(id) <= 4 THEN id ELSE SubSeq(id, Len(id) - 3, Len(id))

\* C2: every id an add returns ends in the suffix of its collection, and a
\* remove_collection that completes removes the records of the named
\* collection and no other record.
C2_SuffixAndCollectionDelete ==
    [][/\ call'.op = "add_question_sql" => Tail4(call'.ret) = SuffixSql
       /\ call'.op = "add_ddl" => Tail4(call'.ret) = SuffixDdl
       /\ call'.op = "add_documentation" => Tail4(call'.ret) = SuffixDoc
       /\ (/\ call'.op = "remove_collection"
           /\ call'.args[1] \in CollectionNames
           /\ call'.fault = "none")
              => table' = {r \in table : r.collection # call'.args[1]}
      ]_vars

\* A remove_collection deleted the ddl records while records of both other
\* collections stay.
C2_Witness ==
    /\ call.op = "remove_collection" /\ call.args = <<"ddl">>
    /\ call.fault = "none"
    /\ call.ret = TRUE
    /\ \E r \in table : r.collection = "sql"
    /\ \E r \in table : r.collection = "documentation"

\* C3: with no engine failure, remove_training_data(id) returns false and
\* leaves the corpus alone when no record has the id, and otherwise returns
\* true and removes the records with that id and no other.
C3_RemoveTrainingData ==
    [][(call'.op = "remove_training_data" /\ call'.fault = "none")
          => LET id == call'.args[1]
             IN  /\ call'.raised = "none"
                 /\ RowsWithId(table, id) = {}
                       => call'.ret = FALSE /\ table' = table
                 /\ RowsWithId(table, id) # {}
                       => /\ call'.ret = TRUE
                          /\ RowsWithId(table', id) = {}
                          /\ table' = table \ RowsWithId(table, id)
      ]_vars

\* A record was removed by id and another record is still there.
C3_Witness ==
    /\ call.op = "remove_training_data"
    /\ call.fault = "none"
    /\ call.ret = TRUE
    /\ table # {}

\* C4: whatever fails during a delete operation, the transaction is rolled
\* back, the corpus is as before, the operation returns false and no
\* exception reaches the caller.
C4_DeleteFailureReturnsFalse ==
    [][(call'.op \in DeleteOps /\ call'.fault # "none")
          => /\ call'.raised = "none"
             /\ call'.ret = FALSE
             /\ call'.rollback
             /\ table' = table
      ]_vars

PlanItem(item_type, item_name, item_value) ==
    [item_type |-> item_type, item_name |-> item_name,
     item_value |-> item_value]

ITEM_TYPE_SQL == "sql"

ITEM_TYPE_DDL == "ddl"

ITEM_TYPE_IS == "is"

\* Lines 129-134 with the test of item.item_name left out.
plan_item_unnamed_sql_stored(t, item) ==
    IF item.item_type = ITEM_TYPE_DDL THEN store_ddl(t, item.item_value)
    ELSE IF item.item_type = ITEM_TYPE_IS
         THEN store_documentation(t, item.item_value)
    ELSE IF item.item_type = ITEM_TYPE_SQL
         THEN store_question_sql(t, item.item_name.val, item.item_value)
    ELSE t

\* Lines 129-134: the table after one item of the plan.
plan_item(t, item) ==
    IF item.item_type = ITEM_TYPE_DDL THEN store_ddl(t, item.item_value)
    ELSE IF item.item_type = ITEM_TYPE_IS
         THEN store_documentation(t, item.item_value)
    ELSE IF item.item_type = ITEM_TYPE_SQL /\ Truthy(item.item_name)
         THEN store_question_sql(t, item.item_name.val, item.item_value)
    ELSE t

RECURSIVE replay_plan(_, _)
\* Line 128: for item in plan._plan, in order.
replay_plan(t, items) ==
    IF items = <<>> THEN t
    ELSE replay_plan(plan_item(t, Head(items)), Tail(items))

\* The if-chain with the test of sql alone placed before documentation.
train_branch_sql_first(in) ==
    IF Truthy(in.sql) /\ Truthy(in.question) THEN "Adding question"
    ELSE IF Truthy(in.sql) THEN "Question generated"
    ELSE IF Truthy(in.documentation) THEN "Adding documentation"
    ELSE IF Truthy(in.ddl) THEN "Adding ddl"
    ELSE IF Truthy(in.question) THEN "ValidationError"
    ELSE IF in.plan.given THEN "plan"
    ELSE "none"

\* Lines 107-127: the branch train takes, named by what it prints.
train_branch(in) ==
    IF Truthy(in.sql) /\ Truthy(in.question) THEN "Adding question"
    ELSE IF Truthy(in.documentation) THEN "Adding documentation"
    ELSE IF Truthy(in.sql) THEN "Question generated"
    ELSE IF Truthy(in.ddl) THEN "Adding ddl"
    ELSE IF Truthy(in.question) THEN "ValidationError"
    ELSE IF in.plan.given THEN "plan"
    ELSE "none"

\* train(question, sql, ddl, documentation, plan); generate_question(sql)
\* answers with whatever text the completion collaborator gives.
train(in) ==
    LET branch == train_branch(in)
        Done(t, ret, raised) ==
            /\ table' = t
            /\ call' = Call("train", in, ret, raised,
                            IF branch \in {"plan", "ValidationError"}
                            THEN "none" ELSE branch, FALSE)
    IN  /\ CASE branch = "Adding question" ->
                  Done(store_question_sql(table, in.question.val, in.sql.val),
                       QuestionSqlDocument(in.question.val, in.sql.val).id,
                       "none")
             [] branch = "Adding documentation" ->
                  Done(store_documentation(table, in.documentation.val),
                       DocumentationDocument(in.documentation.val).id, "none")
             [] branch = "Question generated" ->
                  \E question \in Texts :
                      Done(store_question_sql(table, question, in.sql.val),
                           QuestionSqlDocument(question, in.sql.val).id,
                           "none")
             [] branch = "Adding ddl" ->
                  Done(store_ddl(table, in.ddl.val),
                       DdlDocument(in.ddl.val).id, "none")
             [] branch = "ValidationError" ->
                  Done(table, NoneVal, "ValidationError")
             [] branch = "plan" ->
                  Done(replay_plan(table, in.plan.items), NoneVal, "none")
             [] OTHER -> Done(table, NoneVal, "none")
        /\ UNCHANGED <<seen, pc, loc>>

\* ---------------------------------------------------- train specification
\* An optional text argument: None, "" or a non-empty text.
OptTexts == {NoneVal} \cup {StrVal(s) : s \in Texts}

\* The items plans are made of: a DDL item, a documentation item, a SQL
\* item with a name and a SQL item with an empty name.
PlanItems ==
    {PlanItem(ITEM_TYPE_DDL, NoneVal, <<"n">>),
     PlanItem(ITEM_TYPE_IS, NoneVal, <<"n">>),
     PlanItem(ITEM_TYPE_SQL, StrVal(<<"n">>), <<"n">>),
     PlanItem(ITEM_TYPE_SQL, StrVal(<<>>), <<"n">>)}

RECURSIVE PlansOfLen(_)
PlansOfLen(k) ==
    IF k = 0 THEN {<<>>}
    ELSE {Append(p, i) : p \in PlansOfLen(k - 1), i \in PlanItems}

NoPlan == [given |-> FALSE, items |-> <<>>]

Plans ==
    {[given |-> TRUE, items |-> p] :
        p \in UNION {PlansOfLen(k) : k \in 0..MaxPlanLen}}

TrainArgs(question, sql, ddl, documentation, plan) ==
    [question |-> question, sql |-> sql, ddl |-> ddl,
     documentation |-> documentation, plan |-> plan]

\* The calls of train: every combination of the four texts without a plan,
\* every plan alone, and the plans of at most one item next to a DDL text.
TrainInputs ==
    {TrainArgs(q, s, d, doc, NoPlan) :
        q \in OptTexts, s \in OptTexts, d \in OptTexts, doc \in OptTexts}
    \cup {TrainArgs(NoneVal, NoneVal, NoneVal, NoneVal, p) : p \in Plans}
    \cup {TrainArgs(NoneVal, NoneVal, StrVal(<<"n">>), NoneVal, p) :
            p \in {x \in Plans : Len(x.items) <= 1}}

NextTrain ==
    \/ \E in \in TrainInputs : train(in)
    \/ \E name \in CollectionNames : remove_collection(name, "none")

SpecTrain == Init /\ [][NextTrain]_vars

\* ------------------------------------------------- claims under SpecTrain
\* The branch the claim's priority order names for the four texts.
PriorityBranch(a) ==
    IF Truthy(a.question) /\ Truthy(a.sql) THEN "pair"
    ELSE IF Truthy(a.documentation) THEN "documentation"
    ELSE IF Truthy(a.sql) THEN "sql alone"
    ELSE IF Truthy(a.ddl) THEN "ddl"
    ELSE IF Truthy(a.question) THEN "question alone"
    ELSE "nothing"

\* C6: train does what the first applicable branch of the priority order
\* says and nothing else: it stores the pair, the documentation, the pair
\* with a synthesized question, or the ddl, or it fails with
\* ValidationError storing nothing; a call that names a branch adds at
\* most one record, and a call with no argument adds nothing and returns
\* no id.
C6_TrainPriority ==
    [][call'.op = "train"
          => LET a == call'.args
                 b == PriorityBranch(a)
             IN  /\ b = "pair"
                       => /\ table' = store_question_sql(table, a.question.val,
                                                         a.sql.val)
                          /\ call'.ret =
                                 QuestionSqlDocument(a.question.val,
                                                     a.sql.val).id
                 /\ b = "documentation"
                       => /\ table' = store_documentation(table,
                                                          a.documentation.val)
                          /\ call'.ret =
                                 DocumentationDocument(a.documentation.val).id
                 /\ b = "sql alone"
                       => \E q \in Texts :
                             /\ table' = store_question_sql(table, q, a.sql.val)
                             /\ call'.ret =
                                    QuestionSqlDocument(q, a.sql.val).id
                 /\ b = "ddl"
                       => /\ table' = store_ddl(table, a.ddl.val)
                          /\ call'.ret = DdlDocument(a.ddl.val).id
                 /\ b = "question alone"
                       => call'.raised = "ValidationError" /\ table' = table
                 /\ b # "question alone" => call'.raised = "none"
                 /\ b # "nothing" => Cardinality(table' \ table) <= 1
                 /\ (b = "nothing" /\ ~a.plan.given)
                       => table' = table /\ call'.ret = NoneVal
      ]_vars

\* train was given a sql and a documentation text and no question, and
\* stored the documentation only.
C6_Witness ==
    /\ call.op = "train"
    /\ Truthy(call.args.sql) /\ Truthy(call.args.documentation)
    /\ ~Truthy(call.args.question)
    /\ call.diag = "Adding documentation"
    /\ \A r \in table : r.collection = "documentation"
    /\ table # {}

\* The record each kind of plan item stands for.
ItemRows(items) ==
    {Row(DdlDocument(items[n].item_value).id,
         DdlDocument(items[n].item_value).id, items[n].item_value, "ddl") :
        n \in {m \in 1..Len(items) : items[m].item_type = ITEM_TYPE_DDL}}
    \cup
    {Row(DocumentationDocument(items[n].item_value).id,
         DocumentationDocument(items[n].item_value).id,
         items[n].item_value, "documentation") :
        n \in {m \in 1..Len(items) : items[m].item_type = ITEM_TYPE_IS}}
    \cup
    {Row(QuestionSqlDocument(items[n].item_name.val, items[n].item_value).id,
         QuestionSqlDocument(items[n].item_name.val, items[n].item_value).id,
         question_sql_json(items[n].item_name.val, items[n].item_value),
         "sql") :
        n \in {m \in 1..Len(items) :
                  /\ items[m].item_type = ITEM_TYPE_SQL
                  /\ items[m].item_name.kind = "str"
                  /\ items[m].item_name.val # <<>>}}

OneOfEach(items) ==
    /\ Len(items) = 3
    /\ \E n \in 1..3 : items[n].item_type = ITEM_TYPE_DDL
    /\ \E n \in 1..3 : items[n].item_type = ITEM_TYPE_IS
    /\ \E n \in 1..3 : /\ items[n].item_type = ITEM_TYPE_SQL
                       /\ items[n].item_name.val # <<>>

OnePerCollection(t) ==
    /\ Cardinality(t) = 3
    /\ \A c \in CollectionNames :
          Cardinality({r \in t : r.collection = c}) = 1

\* C7: train(plan=P) leaves the corpus with what it held plus, for each
\* DDL item a ddl record, for each documentation item a documentation
\* record and for each SQL item with a non-empty name a (name, value)
\* record in the sql collection, and nothing for a SQL item with an empty
\* name; one item of each kind on an empty store gives three records, one
\* per collection.
C7_PlanReplay ==
    [][(call'.op = "train" /\ call'.args.plan.given
            /\ PriorityBranch(call'.args) = "nothing")
          => LET items == call'.args.plan.items
             IN  /\ table' = table \cup ItemRows(items)
                 /\ (table = {} /\ OneOfEach(items))
                       => OnePerCollection(table')
      ]_vars

\* A plan of one DDL, one documentation and one named SQL item was
\* replayed and the corpus holds three records, one per collection.
C7_Witness ==
    /\ call.op = "train" /\ call.args.plan.given
    /\ PriorityBranch(call.args) = "nothing"
    /\ OneOfEach(call.args.plan.items)
    /\ OnePerCollection(table)

\* --------------------------------------------------- export specification
\* get_training_data reads the whole flat table, which other writers share:
\* the table is any set of at most MaxRows rows with these ids and texts.
IdPool ==
    {<<"u">> \o SuffixSql, <<"u">> \o SuffixDdl, <<"u">> \o SuffixDoc,
     <<"u", "-", "x", "y", "z">>, <<"q", "l">>}

DocumentPool ==
    {question_sql_json(<<"n">>, <<DQ>>),
     <<"{">>,
     <<"n", "u", "l", "l">>,
     <<"1">>,
     <<"{", "}">>}

RowPool ==
    {Row(<<ToString(<<id, d>>)>>, id, d, "langchain") :
        id \in IdPool, d \in DocumentPool}

InitExport ==
    /\ table \in {t \in SUBSET RowPool : Cardinality(t) <= MaxRows}
    /\ call = NoCall
    /\ seen = NoSeen
    /\ pc = Idle
    /\ loc = NoLoc

NextExport == get_training_data

SpecExport == InitExport /\ [][NextExport]_vars

\* The collection an id's last three characters name, "" for none.
SuffixCollection(id) ==
    IF Last3(id) = <<"s", "q", "l">> THEN "sql"
    ELSE IF Last3(id) = <<"d", "d", "l">> THEN "ddl"
    ELSE IF Last3(id) = <<"d", "o", "c">> THEN "documentation"
    ELSE ""

\* The payload decodes into a record (a dict).
Decodes(document) ==
    /\ literal_eval(document).exc = "none"
    /\ literal_eval(document).value.kind = "dict"

\* The rows the claim says the export keeps.
Exported(t) ==
    {r \in t : /\ SuffixCollection(r.id) # ""
               /\ SuffixCollection(r.id) = "sql" => Decodes(r.document)}

\* C5: get_training_data raises for no corpus; it skips the rows with an
\* unrecognized suffix and the sql rows whose payload does not decode into
\* a record, and exports one row for each other record, typed by its
\* collection, with a null question for ddl and documentation.
C5_ExportSkipsBadRows ==
    call.op = "get_training_data" =>
        /\ call.raised = "none"
        /\ DOMAIN call.ret = Exported(table)
        /\ \A r \in Exported(table) :
              /\ call.ret[r].training_data_type = SuffixCollection(r.id)
              /\ call.ret[r].id = r.id
              /\ SuffixCollection(r.id) \in {"ddl", "documentation"}
                    => call.ret[r].question = NoneVal

\* ----------------------------------------------- round-trip specification
\* One add_question_sql of any two texts on an empty store, then
\* retrievals.
NextRoundTrip ==
    \/ \E question \in Strings, sql \in Strings :
          table = {} /\ add_question_sql(question, sql)
    \/ \E question \in Texts : get_similar_question_sql(question)

SpecRoundTrip == Init /\ [][NextRoundTrip]_vars

\* The record {"question": question, "sql": sql}.
QuestionSqlRecord(question, sql) ==
    DictVal(<<<<StrVal(KeyQuestion), StrVal(question)>>,
              <<StrVal(KeySql), StrVal(sql)>>>>)

\* C8: the payload add_question_sql(question, sql) stores in the sql
\* collection decodes to the record {question, sql}, and
\* get_similar_question_sql returns that record.
C8_QuestionSqlRoundTrip ==
    /\ call.op = "add_question_sql"
          => /\ RowsWithId(table, call.ret) # {}
             /\ \A r \in RowsWithId(table, call.ret) :
                   /\ r.collection = "sql"
                   /\ literal_eval(r.document).exc = "none"
                   /\ literal_eval(r.document).value =
                          QuestionSqlRecord(call.args[1], call.args[2])
    /\ (call.op = "get_similar_question_sql"
          /\ seen.op = "add_question_sql"
          /\ RowsWithId(table, seen.id) # {})
          => /\ call.raised = "none"
             /\ QuestionSqlRecord(seen.content[1], seen.content[2])
                    \in call.ret

\* A question with a backslash before a letter and a sql text with a quote
\* came back from get_similar_question_sql.
C8_Witness ==
    /\ call.op = "get_similar_question_sql"
    /\ seen.op = "add_question_sql"
    /\ seen.content = <<<<BS, "n">>, <<DQ>>>>
    /\ call.raised = "none"
    /\ QuestionSqlRecord(<<BS, "n">>, <<DQ>>) \in call.ret

\* ----------------------------------------------------- race specification
\* NumCallers callers run the same add with the same content, each in two
\* steps: build the document with its id, then hand it to add_documents,
\* which the database runs as one INSERT ... ON CONFLICT DO UPDATE.
\* call holds the add and its content.
AddDocument(op, args) ==
    IF op = "add_question_sql" THEN QuestionSqlDocument(args[1], args[2])
    ELSE IF op = "add_ddl" THEN DdlDocument(args[1])
    ELSE DocumentationDocument(args[1])

AddCollection(op) ==
    IF op = "add_question_sql" THEN "sql"
    ELSE IF op = "add_ddl" THEN "ddl"
    ELSE "documentation"

InitRace ==
    /\ table = {}
    /\ \E op \in AddOps, text \in Strings :
          call = Call(op, IF op = "add_question_sql" THEN <<text, <<"n">>>>
                          ELSE <<text>>, NoneVal, "none", "none", FALSE)
    /\ seen = NoSeen
    /\ pc = [c \in Callers |-> "start"]
    /\ loc = NoLoc

\* Lines 57-59, 64-65, 70-71: the caller derives the id and the document.
derive(c) ==
    /\ pc[c] = "start"
    /\ loc' = [loc EXCEPT ![c] = AddDocument(call.op, call.args)]
    /\ pc' = [pc EXCEPT ![c] = "derived"]
    /\ UNCHANGED <<table, call, seen>>

\* The upsert made with the ids argument left out.
upsert_without_ids(c) ==
    /\ pc[c] = "derived"
    /\ table' = add_documents(table, AddCollection(call.op), loc[c],
                              GeneratedKey(table))
    /\ pc' = [pc EXCEPT ![c] = "done"]
    /\ UNCHANGED <<call, seen, loc>>

\* Lines 60-61, 66-67, 72-73: add_documents([doc], ids=[doc.metadata["id"]])
\* and the return of the id.
upsert(c) ==
    /\ pc[c] = "derived"
    /\ table' = add_documents(table, AddCollection(call.op), loc[c],
                              loc[c].id)
    /\ pc' = [pc EXCEPT ![c] = "done"]
    /\ UNCHANGED <<call, seen, loc>>

NextRace ==
    \/ \E c \in Callers : derive(c)
    \/ \E c \in Callers : upsert(c)

SpecRace == InitRace /\ [][NextRace]_vars

\* C10: under every interleaving, the callers that have derived an id hold
\* the same id, the corpus never holds more than one record, and once all
\* have returned it holds exactly the one record of that content.
C10_ConcurrentIdenticalInserts ==
    /\ \A c \in Callers, d \in Callers :
          (pc[c] # "start" /\ pc[d] # "start") => loc[c].id = loc[d].id
    /\ Cardinality(table) <= 1
    /\ (\A c \in Callers : pc[c] = "done")
          => LET doc == AddDocument(call.op, call.args)
             IN  table = {Row(doc.id, doc.id, doc.page_content,
                              AddCollection(call.op))}

\* Every caller has returned, the second having upserted over the first.
C10_Witness ==
    /\ \A c \in Callers : pc[c] = "done"
    /\ call.op = "add_question_sql"
    /\ Cardinality(table) = 1

====
